---- MODULE Spec2Model ----
(***************************************************************************)
(* A model of src/src/algorithm/nmf.py: the NMF engines (EUCNMF, KLNMF,    *)
(* ISNMF, tNMF, CauchyNMF, ComplexEUCNMF, MultichannelISNMF), their        *)
(* construction, the run entry point (__call__), _reset, the update loop   *)
(* and the per-divergence update rules.                                    *)
(*                                                                         *)
(* Numbers.  A numpy float is modelled as an integer on a grid: the        *)
(* integer v stands for the real v / Scale.  Every operation rounds its    *)
(* exact result away from zero to the grid, so that, as in IEEE arithmetic *)
(* away from underflow, a product or quotient of non-zero numbers is never *)
(* zero and signs are exact.  Inf, NInf and NaN are the IEEE specials,     *)
(* with numpy's rules (x/0 = inf, 0/0 = nan, inf*0 = nan, comparisons with *)
(* nan are false).  eps is one grid unit.  The finite range ends at Inf:    *)
(* a result beyond it overflows to Inf, as an IEEE result does at its own  *)
(* range.                                                                  *)
(***************************************************************************)
EXTENDS Integers, Sequences, FiniteSets, TLC

\* ------------------------------------------------------------------ bounds
\* Grid resolution: the integer v stands for v / Scale.
Scale == 4
\* The largest iteration count a run is called with.
MaxIter == 2
\* The number of run calls made on the engine instance.
MaxCalls == 2
\* The numerical floor eps, one grid unit (EPS, the default of every engine).
EPS == 1

\* ------------------------------------------------------------- numbers
Inf == 2^15
NInf == 0 - Inf
NaN == Inf + 1

IsFin(x) == x > NInf /\ x < Inf
Abs(x) == IF x < 0 THEN 0 - x ELSE x
Sgn(x) == IF x < 0 THEN 0 - 1 ELSE IF x > 0 THEN 1 ELSE 0
Sat(x) == IF x >= Inf THEN Inf ELSE IF x <= NInf THEN NInf ELSE x
CeilDiv(a, b) == (a + b - 1) \div b
One == Scale

FNeg(a) == IF a = NaN THEN NaN ELSE 0 - a

FAdd(a, b) ==
    IF a = NaN \/ b = NaN THEN NaN
    ELSE IF (a = Inf /\ b = NInf) \/ (a = NInf /\ b = Inf) THEN NaN
    ELSE IF a = Inf \/ b = Inf THEN Inf
    ELSE IF a = NInf \/ b = NInf THEN NInf
    ELSE Sat(a + b)

FSub(a, b) == FAdd(a, FNeg(b))

FMul(a, b) ==
    IF a = NaN \/ b = NaN THEN NaN
    ELSE IF ~IsFin(a) \/ ~IsFin(b)
         THEN (IF a = 0 \/ b = 0 THEN NaN
               ELSE IF Sgn(a) * Sgn(b) > 0 THEN Inf ELSE NInf)
    ELSE Sat(Sgn(a) * Sgn(b) * CeilDiv(Abs(a) * Abs(b), Scale))

FDiv(a, b) ==
    IF a = NaN \/ b = NaN THEN NaN
    ELSE IF ~IsFin(a) /\ ~IsFin(b) THEN NaN
    ELSE IF ~IsFin(b) THEN 0
    ELSE IF b = 0
         THEN (IF a = 0 THEN NaN ELSE IF a > 0 THEN Inf ELSE NInf)
    ELSE IF ~IsFin(a)
         THEN (IF Sgn(a) * Sgn(b) > 0 THEN Inf ELSE NInf)
    ELSE Sat(Sgn(a) * Sgn(b) * CeilDiv(Abs(a) * Scale, Abs(b)))

\* x < y as numpy evaluates it: false when either side is nan.
FLess(a, b) == a # NaN /\ b # NaN /\ a < b

\* X[X < eps] = eps, on one entry.
Clamp(x, eps) == IF FLess(x, eps) THEN eps ELSE x

\* np.maximum(x, eps), on one entry: nan propagates.
FMax(a, b) == IF a = NaN \/ b = NaN THEN NaN ELSE IF a < b THEN b ELSE a

RECURSIVE IPow(_, _)
IPow(r, q) == IF q = 0 THEN 1 ELSE r * IPow(r, q - 1)

RECURSIVE RootUp(_, _, _)
RootUp(r, t, q) == IF IPow(r, q) >= t THEN r ELSE RootUp(r + 1, t, q)

\* The q-th root of a finite x >= 0, rounded up to the grid.
FRoot(x, q) == IF q = 1 THEN x ELSE RootUp(0, x * IPow(Scale, q - 1), q)

RECURSIVE FPowInt(_, _)
FPowInt(x, p) == IF p = 0 THEN One ELSE FMul(FPowInt(x, p - 1), x)

RECURSIVE Gcd(_, _)
Gcd(a, b) == IF b = 0 THEN a ELSE Gcd(b, a % b)

\* x ** (p / q) for integers p and q > 0, as numpy's float power: x**0 is 1
\* for every x, a negative base with a fractional exponent is nan.
FPowRed(x, p, q) ==
    IF p = 0 THEN One
    ELSE IF x = NaN THEN NaN
    ELSE IF x < 0 /\ q > 1 THEN NaN
    ELSE IF x = Inf THEN Inf
    ELSE IF x = NInf THEN (IF p % 2 = 0 THEN Inf ELSE NInf)
    ELSE LET y == FPowInt(x, p)
         IN  IF y = Inf \/ y = NInf \/ q = 1 THEN y ELSE FRoot(y, q)

FPow(x, p, q) ==
    LET g == Gcd(Abs(p), q)
        pp == Abs(p) \div g
        qq == q \div g
    IN  IF p < 0 THEN FDiv(One, FPowRed(x, pp, qq)) ELSE FPowRed(x, pp, qq)

FSqrt(x) == FPow(x, 1, 2)

RECURSIVE SeqSum(_)
SeqSum(s) == IF Len(s) = 0 THEN 0 ELSE FAdd(SeqSum(SubSeq(s, 1, Len(s) - 1)), s[Len(s)])

\* ------------------------------------------------------------ matrices
\* A matrix is a sequence of rows, each a sequence of numbers.
\* (SubSeq makes each row, and the matrix, an evaluated tuple.)
Mat(r, c, f(_, _)) ==
    SubSeq([i \in 1..r |-> SubSeq([j \in 1..c |-> f(i, j)], 1, c)], 1, r)
NRows(M) == Len(M)
NCols(M) == Len(M[1])
Shape(M) == <<NRows(M), NCols(M)>>
EMap(M, f(_)) == Mat(NRows(M), NCols(M), LAMBDA i, j: f(M[i][j]))
EMap2(A, B, f(_, _)) == Mat(NRows(A), NCols(A), LAMBDA i, j: f(A[i][j], B[i][j]))
Transpose(M) == Mat(NCols(M), NRows(M), LAMBDA i, j: M[j][i])
MatMul(A, B) ==
    Mat(NRows(A), NCols(B),
        LAMBDA i, j: SeqSum([k \in 1..NCols(A) |-> FMul(A[i][k], B[k][j])]))
EMul(A, B) == EMap2(A, B, FMul)
EDiv(A, B) == EMap2(A, B, FDiv)
EAdd(A, B) == EMap2(A, B, FAdd)
ESub(A, B) == EMap2(A, B, FSub)
EScale(c, M) == EMap(M, LAMBDA x: FMul(c, x))
EPow(M, p, q) == EMap(M, LAMBDA x: FPow(x, p, q))
ESqrt(M) == EMap(M, FSqrt)
EClamp(M, eps) == EMap(M, LAMBDA x: Clamp(x, eps))
Entries(M) == {M[i][j] : i \in 1..NRows(M), j \in 1..NCols(M)}


\* ------------------------------------------------- the outcome of a step
\* What one call of update_once leaves behind: the exception it raised (or
\* "none"), the engine's basis and activation, and the array object the
\* engine's target refers to (the caller's array: self.target is an alias).
Done(T, V, X) == [err |-> "none", basis |-> T, activation |-> V, target |-> X]
Raise(e, T, V, X) == [err |-> e, basis |-> T, activation |-> V, target |-> X]

Two == 2 * One
Three == 3 * One

\* Each update rule is given as its two halves, "Update basis" and "Update
\* activations": the second is applied to the basis the first produced.

\* ---------------------------------------------------------------- EUCNMF
EUCNMF_mm_basis(T, V, X, d, eps) ==
    LET Vt  == Transpose(V)
        TV  == EClamp(MatMul(T, V), eps)
        TVV == EClamp(MatMul(EPow(TV, 4 - d, d), Vt), eps)
        num == MatMul(EMul(X, EPow(TV, 2 - d, d)), Vt)
    IN  EMul(T, EPow(EDiv(num, TVV), d, 4 - d))

EUCNMF_mm_activation(T, V, X, d, eps) ==
    LET Tt  == Transpose(T)
        TV  == EClamp(MatMul(T, V), eps)
        TTV == EClamp(MatMul(Tt, EPow(TV, 4 - d, d)), eps)
        num == MatMul(Tt, EMul(X, EPow(TV, 2 - d, d)))
    IN  EMul(V, EPow(EDiv(num, TTV), d, 4 - d))

EUCNMF_update_once_mm(T, V, X, d, eps) ==
    LET T2 == EUCNMF_mm_basis(T, V, X, d, eps)
    IN  Done(T2, EUCNMF_mm_activation(T2, V, X, d, eps), X)

EUCNMF_update_once(alg, T, V, X, d, eps) ==
    IF alg = "mm" THEN EUCNMF_update_once_mm(T, V, X, d, eps)
    ELSE Raise("ValueError", T, V, X)

\* ----------------------------------------------------------------- KLNMF
KLNMF_mm_basis(T, V, X, d, eps) ==
    LET Vt  == Transpose(V)
        TV  == EClamp(MatMul(T, V), eps)
        TVV == EClamp(MatMul(EPow(TV, 2 - d, d), Vt), eps)
        division == EDiv(X, TV)
    IN  EMul(T, EPow(EDiv(MatMul(division, Vt), TVV), d, 2))

KLNMF_mm_activation(T, V, X, d, eps) ==
    LET Tt  == Transpose(T)
        TV  == EClamp(MatMul(T, V), eps)
        TTV == EClamp(MatMul(Tt, EPow(TV, 2 - d, d)), eps)
        division == EDiv(X, TV)
    IN  EMul(V, EPow(EDiv(MatMul(Tt, division), TTV), d, 2))

\* A variant that forms the activation update from the basis the step started
\* with (Jacobi), which the property of C13 must tell from
\* KLNMF_update_once_mm.
KLNMF_update_once_mm_jacobi(T, V, X, d, eps) ==
    Done(KLNMF_mm_basis(T, V, X, d, eps), KLNMF_mm_activation(T, V, X, d, eps), X)

KLNMF_update_once_mm(T, V, X, d, eps) ==
    LET T2 == KLNMF_mm_basis(T, V, X, d, eps)
    IN  Done(T2, KLNMF_mm_activation(T2, V, X, d, eps), X)

KLNMF_update_once(alg, T, V, X, d, eps) ==
    IF alg = "mm" THEN KLNMF_update_once_mm(T, V, X, d, eps)
    ELSE Raise("ValueError", T, V, X)

\* ----------------------------------------------------------------- ISNMF
\* update_once_mm raises the ratio to d/(d+2), update_once_me to 1: the two
\* methods differ in that exponent (p/q) alone.
EInv(M) == EMap(M, LAMBDA x: FDiv(One, x))

ISNMF_basis(T, V, X, d, eps, p, q) ==
    LET Vt  == Transpose(V)
        TV  == EClamp(MatMul(T, V), eps)
        division == EDiv(X, EPow(TV, d + 2, d))
        TVV == EClamp(MatMul(EInv(TV), Vt), eps)
    IN  EMul(T, EPow(EDiv(MatMul(division, Vt), TVV), p, q))

ISNMF_activation(T, V, X, d, eps, p, q) ==
    LET Tt  == Transpose(T)
        TV  == EClamp(MatMul(T, V), eps)
        division == EDiv(X, EPow(TV, d + 2, d))
        TTV == EClamp(MatMul(Tt, EInv(TV)), eps)
    IN  EMul(V, EPow(EDiv(MatMul(Tt, division), TTV), p, q))

ISNMF_update_once_mm(T, V, X, d, eps) ==
    LET T2 == ISNMF_basis(T, V, X, d, eps, d, d + 2)
    IN  Done(T2, ISNMF_activation(T2, V, X, d, eps, d, d + 2), X)

ISNMF_update_once_me(T, V, X, d, eps) ==
    IF d # 2 THEN Raise("AssertionError", T, V, X)
    ELSE LET T2 == ISNMF_basis(T, V, X, d, eps, 1, 1)
         IN  Done(T2, ISNMF_activation(T2, V, X, d, eps, 1, 1), X)

ISNMF_update_once(alg, T, V, X, d, eps) ==
    IF alg = "mm" THEN ISNMF_update_once_mm(T, V, X, d, eps)
    ELSE IF alg = "me" THEN ISNMF_update_once_me(T, V, X, d, eps)
    ELSE Raise("ValueError", T, V, X)

\* ------------------------------------------------------------------ tNMF
\* Z = np.maximum(target, eps): a new array.
tNMF_Z(X, eps) == EMap(X, LAMBDA x: FMax(x, eps))

\* 1 / (2 / ((2 + nu) * TV) + nu / ((2 + nu) * Z))
tNMF_harmonic(TV, Z, nu) ==
    EMap2(TV, Z, LAMBDA tv, z:
        FDiv(One, FAdd(FDiv(Two, FMul(FAdd(Two, nu), tv)),
                       FDiv(nu, FMul(FAdd(Two, nu), z)))))

tNMF_mm_basis(T, V, Z, nu, eps) ==
    LET Vt  == Transpose(V)
        TV  == EClamp(MatMul(T, V), eps)
        division == EDiv(tNMF_harmonic(TV, Z, nu), EPow(TV, 2, 1))
        TVV == EClamp(MatMul(EInv(TV), Vt), eps)
    IN  EMul(T, ESqrt(EDiv(MatMul(division, Vt), TVV)))

tNMF_mm_activation(T, V, Z, nu, eps) ==
    LET Tt  == Transpose(T)
        TV  == EClamp(MatMul(T, V), eps)
        division == EDiv(tNMF_harmonic(TV, Z, nu), EPow(TV, 2, 1))
        TTV == EClamp(MatMul(Tt, EInv(TV)), eps)
    IN  EMul(V, ESqrt(EDiv(MatMul(Tt, division), TTV)))

\* A variant that floors the target itself (Z an alias of the target, floored
\* in place), which the property of C9 must tell from tNMF_target_after.
tNMF_target_floored(X, eps) == EMap(X, LAMBDA x: FMax(x, eps))

\* The target array after update_once_mm: it is read, never written.
tNMF_target_after(X, eps) == X

tNMF_update_once_mm(T, V, X, d, eps, nu) ==
    IF d # 2 THEN Raise("AssertionError", T, V, X)
    ELSE LET Z  == tNMF_Z(X, eps)
             T2 == tNMF_mm_basis(T, V, Z, nu, eps)
         IN  Done(T2, tNMF_mm_activation(T2, V, Z, nu, eps), tNMF_target_after(X, eps))

tNMF_update_once(alg, T, V, X, d, eps, nu) ==
    IF alg = "mm" THEN tNMF_update_once_mm(T, V, X, d, eps, nu)
    ELSE Raise("ValueError", T, V, X)

\* ------------------------------------------------------------- CauchyNMF
\* np.sum(V[np.newaxis,:,:] / TV[:,np.newaxis,:], axis=2): bins x n_basis.
SumV_over_TV(V, TV) ==
    Mat(NRows(TV), NRows(V),
        LAMBDA i, k: SeqSum([j \in 1..NCols(V) |-> FDiv(V[k][j], TV[i][j])]))

\* np.sum(T[:,:,np.newaxis] / TV[:,np.newaxis,:], axis=0): n_basis x frames.
SumT_over_TV(T, TV) ==
    Mat(NCols(T), NCols(TV),
        LAMBDA k, j: SeqSum([i \in 1..NRows(T) |-> FDiv(T[i][k], TV[i][j])]))

\* update_once_naive multiplies by the ratio, update_once_mm by its square
\* root: the two methods differ in that exponent (p/q) alone.
CauchyNMF_basis(T, V, X, eps, p, q) ==
    LET TV  == EClamp(MatMul(T, V), eps)
        C   == EClamp(EAdd(EScale(Two, X), EPow(TV, 2, 1)), eps)
        den == EClamp(MatMul(EScale(Three, EDiv(TV, C)), Transpose(V)), eps)
    IN  EMul(T, EPow(EDiv(SumV_over_TV(V, TV), den), p, q))

CauchyNMF_activation(T, V, X, eps, p, q) ==
    LET TV  == EClamp(MatMul(T, V), eps)
        C   == EClamp(EAdd(EScale(Two, X), EPow(TV, 2, 1)), eps)
        den == EClamp(MatMul(EScale(Three, Transpose(T)), EDiv(TV, C)), eps)
    IN  EMul(V, EPow(EDiv(SumT_over_TV(T, TV), den), p, q))

CauchyNMF_update_once_naive(T, V, X, d, eps) ==
    IF d # 2 THEN Raise("AssertionError", T, V, X)
    ELSE LET T2 == CauchyNMF_basis(T, V, X, eps, 1, 1)
         IN  Done(T2, CauchyNMF_activation(T2, V, X, eps, 1, 1), X)

CauchyNMF_update_once_mm(T, V, X, d, eps) ==
    IF d # 2 THEN Raise("AssertionError", T, V, X)
    ELSE LET T2 == CauchyNMF_basis(T, V, X, eps, 1, 2)
         IN  Done(T2, CauchyNMF_activation(T2, V, X, eps, 1, 2), X)

\* A + np.sqrt(A**2 + 2 * B * A), floored at eps.
CauchyNMF_me_denominator(A, B, eps) ==
    EClamp(EMap2(A, B, LAMBDA a, b:
        FAdd(a, FSqrt(FAdd(FPow(a, 2, 1), FMul(FMul(Two, b), a))))), eps)

ThreeQuarters == FDiv(Three, 4 * One)

\* TV = T @ V is used as it is: it is not floored at eps.
CauchyNMF_me_basis(T, V, X, eps) ==
    LET TV   == MatMul(T, V)
        TV2Z == EClamp(EAdd(EPow(TV, 2, 1), X), eps)
        A    == MatMul(EScale(ThreeQuarters, EDiv(TV, TV2Z)), Transpose(V))
        B    == SumV_over_TV(V, TV)
    IN  EMul(T, EDiv(B, CauchyNMF_me_denominator(A, B, eps)))

CauchyNMF_me_activation(T, V, X, eps) ==
    LET TV   == MatMul(T, V)
        TV2Z == EClamp(EAdd(EPow(TV, 2, 1), X), eps)
        A    == MatMul(EScale(ThreeQuarters, Transpose(T)), EDiv(TV, TV2Z))
        B    == SumT_over_TV(T, TV)
    IN  EMul(V, EDiv(B, CauchyNMF_me_denominator(A, B, eps)))

CauchyNMF_update_once_me(T, V, X, d, eps) ==
    IF d # 2 THEN Raise("AssertionError", T, V, X)
    ELSE LET T2 == CauchyNMF_me_basis(T, V, X, eps)
         IN  Done(T2, CauchyNMF_me_activation(T2, V, X, eps), X)

CauchyNMF_mm_fast_basis(T, V, X, eps) ==
    LET TV   == MatMul(T, V)
        C    == EAdd(EScale(Two, X), EPow(TV, 2, 1))
        ZCTV == EDiv(X, EClamp(EMul(C, TV), eps))
        TVC  == EDiv(TV, EClamp(C, eps))
        den  == EClamp(MatMul(TVC, Transpose(V)), eps)
    IN  EMul(T, ESqrt(EDiv(MatMul(ZCTV, Transpose(V)), den)))

CauchyNMF_mm_fast_activation(T, V, X, eps) ==
    LET TV   == MatMul(T, V)
        C    == EAdd(EScale(Two, X), EPow(TV, 2, 1))
        ZCTV == EDiv(X, EClamp(EMul(C, TV), eps))
        TVC  == EDiv(TV, EClamp(C, eps))
        den  == EClamp(MatMul(Transpose(T), TVC), eps)
    IN  EMul(V, ESqrt(EDiv(MatMul(Transpose(T), ZCTV), den)))

CauchyNMF_update_once_mm_fast(T, V, X, d, eps) ==
    IF d # 2 THEN Raise("AssertionError", T, V, X)
    ELSE LET T2 == CauchyNMF_mm_fast_basis(T, V, X, eps)
         IN  Done(T2, CauchyNMF_mm_fast_activation(T2, V, X, eps), X)

CauchyNMF_update_once(alg, T, V, X, d, eps) ==
    IF alg = "naive-multipricative" THEN CauchyNMF_update_once_naive(T, V, X, d, eps)
    ELSE IF alg = "mm" THEN CauchyNMF_update_once_mm(T, V, X, d, eps)
    ELSE IF alg = "me" THEN CauchyNMF_update_once_me(T, V, X, d, eps)
    ELSE IF alg = "mm_fast" THEN CauchyNMF_update_once_mm_fast(T, V, X, d, eps)
    ELSE Raise("ValueError", T, V, X)

\* --------------------------------------------------------- ComplexEUCNMF
\* Complex numbers are modelled on the real axis: a target entry is a signed
\* real, a phase is 0 or Pi, and exp(1j * phase) is 1 or -1.
Ten(b, n, f, g(_, _, _)) ==
    SubSeq([i \in 1..b |-> SubSeq([k \in 1..n |->
        SubSeq([j \in 1..f |-> g(i, k, j)], 1, f)], 1, n)], 1, b)
TMap(Z, h(_)) ==
    Ten(Len(Z), Len(Z[1]), Len(Z[1][1]), LAMBDA i, k, j: h(Z[i][k][j]))

\* pi on the grid.
Pi == CeilDiv(355 * Scale, 113)
\* np.angle of a number on the real axis.
Angle(z) == IF z = NaN THEN NaN ELSE IF z < 0 THEN Pi ELSE 0
\* np.exp(1j * phi) for a phase on the real axis.
ExpI(phi) == IF phi = NaN THEN NaN ELSE IF phi = 0 THEN One ELSE 0 - One

\* init_phase: the target's angle, tiled over the basis axis.
ComplexNMFbase_init_phase(X, n_basis) ==
    Ten(NRows(X), n_basis, NCols(X), LAMBDA i, k, j: Angle(X[i][j]))

ComplexEUCNMF_update_beta(T, V, eps) ==
    LET TVsum == EClamp(MatMul(T, V), eps)
    IN  Ten(NRows(T), NCols(T), NCols(V),
            LAMBDA i, k, j: FDiv(FMul(T[i][k], V[k][j]), TVsum[i][j]))

\* One update_once: what it leaves in basis, activation, phase and Beta, and
\* in the target array.
ComplexEUCNMF_update_once(T, V, Phi, Beta0, X, regularizer, p, eps) ==
    LET b     == NRows(T)
        n     == NCols(T)
        f     == NCols(V)
        Ephi  == TMap(Phi, ExpI)
        Beta  == TMap(Beta0, LAMBDA x: Clamp(x, eps))
        Xc    == Ten(b, n, f, LAMBDA i, k, j: FMul(FMul(T[i][k], V[k][j]), Ephi[i][k][j]))
        ZX    == Mat(b, f, LAMBDA i, j:
                     FSub(X[i][j], SeqSum([k \in 1..n |-> Xc[i][k][j]])))
        Z_bar == Ten(b, n, f, LAMBDA i, k, j:
                     FAdd(Xc[i][k][j], FMul(Beta[i][k][j], ZX[i][j])))
        \* V_bar = V; V_bar[V_bar < eps] = eps: V_bar is V itself, floored.
        V_bar == EClamp(V, eps)
        Re    == Ten(b, n, f, LAMBDA i, k, j: FMul(Z_bar[i][k][j], Ephi[i][k][j]))
        VV    == EPow(V_bar, 2, 1)
        numT  == Mat(b, n, LAMBDA i, k: SeqSum([j \in 1..f |->
                     FMul(FDiv(V_bar[k][j], Beta[i][k][j]), Re[i][k][j])]))
        denT  == EClamp(Mat(b, n, LAMBDA i, k: SeqSum([j \in 1..f |->
                     FDiv(VV[k][j], Beta[i][k][j])])), eps)
        T1    == EDiv(numT, denT)
        TT    == EPow(T1, 2, 1)
        numV  == Mat(n, f, LAMBDA k, j: SeqSum([i \in 1..b |->
                     FMul(FDiv(T1[i][k], Beta[i][k][j]), Re[i][k][j])]))
        denV  == EClamp(Mat(n, f, LAMBDA k, j:
                     FAdd(SeqSum([i \in 1..b |-> FDiv(TT[i][k], Beta[i][k][j])]),
                          FMul(FMul(regularizer, p * One), FPow(V_bar[k][j], p - 2, 1)))), eps)
        V2    == EDiv(numV, denV)
        phase == TMap(Z_bar, Angle)
        T2    == Mat(b, n, LAMBDA i, k:
                     FDiv(T1[i][k], SeqSum([r \in 1..b |-> T1[r][k]])))
    IN  [err |-> "none", basis |-> T2, activation |-> V2, phase |-> phase,
         Beta |-> ComplexEUCNMF_update_beta(T2, V2, eps), target |-> X]

\* ----------------------------------------------------- MultichannelISNMF
\* The spatial covariances are modelled for one channel: a 1 x 1 matrix is
\* its entry, its inverse the reciprocal, its trace itself.  H is bins x
\* n_basis, the target bins x frames.

\* numpy broadcasting along the basis axis: an axis of length 1 is read at
\* its only index, and the result has the longer length.  The tensors can
\* differ there after a warm start (lengths 1 and 2 are compatible).
BIdx(n, k) == IF n = 1 THEN 1 ELSE k
BLen(a, b) == IF a < b THEN b ELSE a

MultichannelISNMF_reconstruct(H, T, V) ==
    Mat(NRows(T), NCols(V), LAMBDA i, j:
        SeqSum([k \in 1..BLen(NCols(H), BLen(NCols(T), NRows(V))) |->
            FMul(H[i][BIdx(NCols(H), k)],
                 FMul(T[i][BIdx(NCols(T), k)], V[BIdx(NRows(V), k)][j]))]))

\* np.linalg.inv(X_hat + eps * np.eye(n_channels))
Multi_inv_X_hat(H, T, V, eps) ==
    EMap(MultichannelISNMF_reconstruct(H, T, V), LAMBDA x: FDiv(One, FAdd(x, eps)))

\* inv_X_hat @ X @ inv_X_hat
Multi_XXX(inv, X) == EMap2(inv, X, LAMBDA a, x: FMul(FMul(a, x), a))

\* denominator of update_basis, floored: sum over frames of V * trace(inv H).
Multi_basis_denominator(H, V, inv, eps) ==
    EClamp(Mat(NRows(H), BLen(NCols(H), NRows(V)), LAMBDA i, k:
        SeqSum([j \in 1..NCols(V) |->
            FMul(V[BIdx(NRows(V), k)][j],
                 FMul(inv[i][j], H[i][BIdx(NCols(H), k)]))])), eps)

MultichannelISNMF_update_basis(H, T, V, X, eps) ==
    LET inv == Multi_inv_X_hat(H, T, V, eps)
        XXX == Multi_XXX(inv, X)
        nHV == BLen(NCols(H), NRows(V))
        num == Mat(NRows(T), nHV, LAMBDA i, k: SeqSum([j \in 1..NCols(V) |->
                   FMul(V[BIdx(NRows(V), k)][j],
                        FMul(XXX[i][j], H[i][BIdx(NCols(H), k)]))]))
        den == Multi_basis_denominator(H, V, inv, eps)
    IN  Mat(NRows(T), BLen(NCols(T), nHV), LAMBDA i, k:
            FMul(T[i][BIdx(NCols(T), k)],
                 FSqrt(FDiv(num[i][BIdx(nHV, k)], den[i][BIdx(nHV, k)]))))

\* denominator of update_activation, floored: sum over bins of T * trace(inv H).
Multi_activation_denominator(H, T, inv, eps) ==
    EClamp(Mat(BLen(NCols(H), NCols(T)), NCols(inv), LAMBDA k, j:
        SeqSum([i \in 1..NRows(T) |->
            FMul(T[i][BIdx(NCols(T), k)],
                 FMul(inv[i][j], H[i][BIdx(NCols(H), k)]))])), eps)

MultichannelISNMF_update_activation(H, T, V, X, eps) ==
    LET inv == Multi_inv_X_hat(H, T, V, eps)
        XXX == Multi_XXX(inv, X)
        nHT == BLen(NCols(H), NCols(T))
        num == Mat(nHT, NCols(V), LAMBDA k, j: SeqSum([i \in 1..NRows(T) |->
                   FMul(T[i][BIdx(NCols(T), k)],
                        FMul(XXX[i][j], H[i][BIdx(NCols(H), k)]))]))
        den == Multi_activation_denominator(H, T, inv, eps)
    IN  Mat(BLen(NRows(V), nHT), NCols(V), LAMBDA k, j:
            FMul(V[BIdx(NRows(V), k)][j],
                 FSqrt(FDiv(num[BIdx(nHT, k)][j], den[BIdx(nHT, k)][j]))))

\* algorithm.linalg.solve_Riccati for 1 x 1 matrices: the H >= 0 with
\* H A H = B, the eigenvalue of A clamped at eps.
solve_Riccati(A, B, eps) == EMap2(A, B, LAMBDA a, b: FSqrt(FDiv(b, Clamp(a, eps))))

MultichannelISNMF_update_spatial(H, T, V, X, eps, normalize) ==
    LET inv  == Multi_inv_X_hat(H, T, V, eps)
        XXX  == Multi_XXX(inv, X)
        nHV  == BLen(NCols(H), NRows(V))
        VXXX == Mat(NRows(H), nHV, LAMBDA i, k: SeqSum([j \in 1..NCols(V) |->
                    FMul(V[BIdx(NRows(V), k)][j], XXX[i][j])]))
        A    == Mat(NRows(H), nHV, LAMBDA i, k: SeqSum([j \in 1..NCols(V) |->
                    FMul(V[BIdx(NRows(V), k)][j], inv[i][j])]))
        B    == Mat(NRows(H), nHV, LAMBDA i, k:
                    FMul(FMul(H[i][BIdx(NCols(H), k)], VXXX[i][k]),
                         H[i][BIdx(NCols(H), k)]))
        H1   == EMap(solve_Riccati(A, B, eps), LAMBDA h: FAdd(h, eps))
    IN  IF normalize THEN EMap(H1, LAMBDA h: FDiv(h, h)) ELSE H1

\* A variant that updates the spatial tensor first and lets every sub-update
\* read the tensors the step started with, which the property of C14 must
\* tell from MultichannelISNMF_update_once.
MultichannelISNMF_update_once_unordered(H, T, V, X, eps, normalize) ==
    [err |-> "none",
     basis |-> MultichannelISNMF_update_basis(H, T, V, X, eps),
     activation |-> MultichannelISNMF_update_activation(H, T, V, X, eps),
     spatial |-> MultichannelISNMF_update_spatial(H, T, V, X, eps, normalize),
     target |-> X]

\* update_once: update_basis, update_activation, update_spatial in turn, each
\* reading the tensors the one before it wrote.
MultichannelISNMF_update_once(H, T, V, X, eps, normalize) ==
    LET T2 == MultichannelISNMF_update_basis(H, T, V, X, eps)
        V2 == MultichannelISNMF_update_activation(H, T2, V, X, eps)
        H2 == MultichannelISNMF_update_spatial(H, T2, V2, X, eps, normalize)
    IN  [err |-> "none", basis |-> T2, activation |-> V2, spatial |-> H2, target |-> X]

\* -------------------------------------------------------- np.random.rand
\* The global generator: a linear congruential generator of period 16, the
\* draw being its high bits, a grid value in [0, 1).
RngNext(s) == (5 * s + 3) % 16
RECURSIVE RngAt(_, _)
RngAt(s, n) == IF n = 0 THEN s ELSE RngAt(RngNext(s), n - 1)
RandVal(s) == (s \div 4) % Scale
\* np.random.rand(r, c) drawn from generator state s, and the state after.
Rand(r, c, s) == Mat(r, c, LAMBDA i, j: RandVal(RngAt(s, (i - 1) * c + j)))
RandAfter(r, c, s) == RngAt(s, r * c)
Seeds == {0, 3, 6}

\* ------------------------------------------------------------ the inputs
RealKinds == {"EUCNMF", "KLNMF", "ISNMF", "tNMF", "CauchyNMF"}
ComplexKind == "ComplexEUCNMF"
MultiKind == "MultichannelISNMF"
Kinds == RealKinds \cup {ComplexKind, MultiKind}
Algorithms == {"mm", "me", "naive-multipricative", "mm_fast", "bogus"}
DomainVals == {0, 1, 2, 3}
NBasisVals == {1, 2}
\* The algorithm names each engine's update_once dispatches on.
Implemented(kind) ==
    IF kind \in {"EUCNMF", "KLNMF", "tNMF"} THEN {"mm"}
    ELSE IF kind = "ISNMF" THEN {"mm", "me"}
    ELSE IF kind = "CauchyNMF" THEN {"naive-multipricative", "mm", "me", "mm_fast"}
    ELSE {"none"}

\* A target array: its entries, and for the multichannel engine the two
\* trailing (channel) dimensions of its shape.  The multichannel targets
\* all have the same bins and frames, so a warm start finds tensors of the
\* target's shape.
Arr(data, chan) == [data |-> data, chan |-> chan]
NoArr == Arr(<<>>, <<>>)
RealTargets ==
    {Arr(<<<<One, 2 * One>>, <<0, One>>>>, <<>>), Arr(<<<<2 * One, 2>>>>, <<>>)}
ComplexTargets ==
    {Arr(<<<<One, 0 - 2 * One>>, <<0, 1>>>>, <<>>), Arr(<<<<0 - One, 2>>>>, <<>>)}
MultiTargets ==
    {Arr(<<<<One, 2 * One>>, <<0, One>>>>, <<1, 1>>),
     Arr(<<<<2, One>>, <<One, 3>>>>, <<1, 1>>),
     Arr(<<<<One, 2 * One>>, <<0, One>>>>, <<1, 2>>),
     Arr(<<<<One, 2 * One>>, <<One, One>>>>, <<2, 1>>)}
Targets(kind) ==
    IF kind \in RealKinds THEN RealTargets
    ELSE IF kind = ComplexKind THEN ComplexTargets ELSE MultiTargets

\* The keyword overrides of a call: each key absent (<<>>) or given (<<v>>).
Kw(n_basis, basis) ==
    [n_basis |-> n_basis, basis |-> basis, domain |-> <<>>, algorithm |-> <<>>]
NoKw == Kw(<<>>, <<>>)
\* Keyword overrides naming the configuration attributes domain or algorithm.
KwConfig(domain, algorithm) ==
    [n_basis |-> <<>>, basis |-> <<>>, domain |-> domain, algorithm |-> algorithm]
\* A basis a caller injects: bins x n columns, every entry 2.0.
Injected(X, n) == Mat(NRows(X.data), n, LAMBDA i, j: 2 * One)
\* The columns of an injected basis: n_basis, or for a multichannel engine
\* that keeps an activation from an earlier call, that activation's rows (the
\* calls modelled inject a basis the kept tensors can be multiplied with).
InjectedCols(s) ==
    IF s.kind = "MultichannelISNMF" /\ s.activation # <<>>
    THEN NRows(s.activation) ELSE s.n_basis
Kwargs(kind, X, n) ==
    IF X = NoArr THEN {NoKw}
    ELSE {NoKw, Kw(<<>>, <<Injected(X, n)>>), Kw(<<2>>, <<>>)}
         \cup (IF kind \in RealKinds
               THEN {KwConfig(<<3>>, <<>>), KwConfig(<<>>, <<"bogus">>)}
               ELSE {})

\* ------------------------------------------------------------ the state
VARIABLES
    pc,      \* "new", "ctor_failed", "idle" (constructed, no call in progress), "loop"
    self,    \* the engine instance's attributes
    arr,     \* the array object the caller passed as target (self.target aliases it)
    rng,     \* the state of numpy's global generator
    idx,     \* update's loop variable: iterations completed in this call
    iters,   \* the iteration argument of the call
    calls,   \* run calls made so far
    err,     \* the exception the last construction or call raised, and where
    ret,     \* what the last call returned: <<>> or <<the tuple of copies>>
    ctor,    \* the arguments the constructor was called with
    pre,     \* the instance's attributes as the last call found them
    kwargs,  \* the keyword overrides of the last call
    arr0,    \* the entries of arr when it was passed in
    rng0,    \* the generator's state when the last call was made
    run0     \* the tensors the first successful _reset left, and the steps since

vars == <<pc, self, arr, rng, idx, iters, calls, err, ret, ctor, pre, kwargs,
          arr0, rng0, run0>>

\* An attribute that does not exist is <<>> (a tensor), "unset" (the target)
\* or 0 (a number the engine's class does not have).
Blank ==
    [kind |-> "none", n_basis |-> 0, eps |-> 0, domain |-> 0, algorithm |-> "none",
     nu |-> 0, regularizer |-> 0, p |-> 0, normalize |-> FALSE,
     target |-> "unset", basis |-> <<>>, activation |-> <<>>, phase |-> <<>>,
     Beta |-> <<>>, spatial |-> <<>>, loss |-> <<>>,
     n_bins |-> 0, n_frames |-> 0, n_channels |-> 0]

NoErr == [kind |-> "none", exc |-> "none", site |-> "none", at |-> 0]
Err(kind, exc, site, at) == [kind |-> kind, exc |-> exc, site |-> site, at |-> at]
NoRun == [set |-> FALSE, basis |-> <<>>, activation |-> <<>>, spatial |-> <<>>,
          target |-> NoArr, steps |-> 0, runs |-> 0, same |-> TRUE]
NoCtor == [kind |-> "none", n_basis |-> 0, domain |-> 0, algorithm |-> "none"]

Init ==
    /\ pc = "new"
    /\ self = Blank
    /\ arr = NoArr
    /\ rng \in Seeds
    /\ idx = 0
    /\ iters = 0
    /\ calls = 0
    /\ err = NoErr
    /\ ret = <<>>
    /\ ctor = NoCtor
    /\ pre = Blank
    /\ kwargs = NoKw
    /\ arr0 = NoArr
    /\ rng0 = rng
    /\ run0 = NoRun

\* ------------------------------------------------------------ __init__
\* The assertions of each class's __init__; "none" when all pass.
EUCNMF_init_check(domain, algorithm) ==
    IF ~(1 <= domain /\ domain <= 2) THEN "domain"
    ELSE IF algorithm # "mm" THEN "algorithm" ELSE "none"
KLNMF_init_check(domain, algorithm) ==
    IF ~(1 <= domain /\ domain <= 2) THEN "domain"
    ELSE IF algorithm # "mm" THEN "algorithm" ELSE "none"
ISNMF_init_check(domain, algorithm) ==
    IF ~(1 <= domain /\ domain <= 2) THEN "domain" ELSE "none"
tNMF_init_check(domain, algorithm) ==
    IF ~(1 <= domain /\ domain <= 2) THEN "domain" ELSE "none"
\* A variant that leaves the domain to update_once, which the property of C4
\* must tell from CauchyNMF_init_check.
CauchyNMF_init_check_deferred(domain, algorithm) == "none"

CauchyNMF_init_check(domain, algorithm) ==
    IF domain # 2 THEN "domain" ELSE "none"

InitCheck(kind, domain, algorithm) ==
    IF kind = "EUCNMF" THEN EUCNMF_init_check(domain, algorithm)
    ELSE IF kind = "KLNMF" THEN KLNMF_init_check(domain, algorithm)
    ELSE IF kind = "ISNMF" THEN ISNMF_init_check(domain, algorithm)
    ELSE IF kind = "tNMF" THEN tNMF_init_check(domain, algorithm)
    ELSE IF kind = "CauchyNMF" THEN CauchyNMF_init_check(domain, algorithm)
    ELSE "none"

\* The attributes __init__ sets (NMFbase.__init__ and the subclass's own).
Constructed(kind, n_basis, domain, algorithm, normalize) ==
    [Blank EXCEPT
        !.kind = kind, !.n_basis = n_basis, !.eps = EPS,
        !.domain = IF kind \in RealKinds THEN domain ELSE 0,
        !.algorithm = IF kind \in RealKinds THEN algorithm ELSE "none",
        !.nu = IF kind = "tNMF" THEN 2 * One ELSE 0,
        !.regularizer = IF kind = ComplexKind THEN 1 ELSE 0,
        !.p = IF kind = ComplexKind THEN 1 ELSE 0,
        !.normalize = (kind = MultiKind /\ normalize)]

Construct(kind, n_basis, domain, algorithm, normalize) ==
    /\ pc = "new"
    /\ ctor' = [kind |-> kind, n_basis |-> n_basis, domain |-> domain,
                algorithm |-> algorithm]
    /\ LET bad == InitCheck(kind, domain, algorithm)
       IN  IF bad # "none"
           THEN /\ pc' = "ctor_failed"
                /\ err' = Err("InvalidConfiguration", bad, "ctor", 0)
                /\ self' = self
           ELSE /\ pc' = "idle"
                /\ err' = NoErr
                /\ self' = Constructed(kind, n_basis, domain, algorithm, normalize)
    /\ UNCHANGED <<arr, rng, idx, iters, calls, ret, pre, kwargs, arr0, rng0, run0>>

\* -------------------------------------------------------------- _reset
\* for key in kwargs.keys(): setattr(self, key, kwargs[key])
ApplyKwargs(s, kw) ==
    [s EXCEPT !.n_basis = IF kw.n_basis = <<>> THEN @ ELSE kw.n_basis[1],
              !.basis = IF kw.basis = <<>> THEN @ ELSE kw.basis[1],
              !.domain = IF kw.domain = <<>> THEN @ ELSE kw.domain[1],
              !.algorithm = IF kw.algorithm = <<>> THEN @ ELSE kw.algorithm[1]]

Reset(e, s, g) == [err |-> e, self |-> s, rng |-> g]

\* A variant that keeps a basis the instance already has (a warm start), which
\* the property of C3 must tell from NMFbase_reset.
NMFbase_reset_keep(s, X, kw, g) ==
    IF s.target = "None" THEN Reset("Specify data!", s, g)
    ELSE LET s2 == ApplyKwargs(s, kw)
             n_bins == NRows(X.data)
             n_frames == NCols(X.data)
             g2 == RandAfter(n_bins, s2.n_basis, g)
         IN  Reset("none",
                   [s2 EXCEPT !.basis = IF @ = <<>> THEN Rand(n_bins, s2.n_basis, g) ELSE @,
                              !.activation = Rand(s2.n_basis, n_frames, g2)],
                   RandAfter(s2.n_basis, n_frames, g2))

\* NMFbase._reset: s is the instance (self.target already assigned), X the
\* array self.target refers to, g the generator's state.
NMFbase_reset(s, X, kw, g) ==
    IF s.target = "None" THEN Reset("Specify data!", s, g)
    ELSE LET s2 == ApplyKwargs(s, kw)
             n_bins == NRows(X.data)
             n_frames == NCols(X.data)
             g2 == RandAfter(n_bins, s2.n_basis, g)
         IN  Reset("none",
                   [s2 EXCEPT !.basis = Rand(n_bins, s2.n_basis, g),
                              !.activation = Rand(s2.n_basis, n_frames, g2)],
                   RandAfter(s2.n_basis, n_frames, g2))

\* ComplexNMFbase._reset, then init_phase and update_beta
\* (ComplexEUCNMF._reset).  The random phase is drawn and then replaced.
ComplexEUCNMF_reset(s, X, kw, g) ==
    IF s.target = "None" THEN Reset("Specify data!", s, g)
    ELSE LET s2 == ApplyKwargs(s, kw)
             n_bins == NRows(X.data)
             n_frames == NCols(X.data)
             g2 == RandAfter(n_bins, s2.n_basis, g)
             g3 == RandAfter(s2.n_basis, n_frames, g2)
             T == Rand(n_bins, s2.n_basis, g)
             V == Rand(s2.n_basis, n_frames, g2)
         IN  Reset("none",
                   [s2 EXCEPT !.basis = T, !.activation = V,
                              !.phase = ComplexNMFbase_init_phase(X.data, s2.n_basis),
                              !.Beta = ComplexEUCNMF_update_beta(T, V, s2.eps)],
                   RngAt(g3, n_bins * s2.n_basis * n_frames))

\* A variant that creates the three tensors on every call (no warm start),
\* which the property of C2 must tell from MultichannelISNMF_reset.
MultichannelISNMF_reset_always_init(s, X, kw, g) ==
    IF s.target = "None" THEN Reset("Specify data!", s, g)
    ELSE LET s2 == ApplyKwargs(s, kw)
             n_bins == NRows(X.data)
             n_frames == NCols(X.data)
             g2 == RandAfter(n_bins, s2.n_basis, g)
         IN  IF X.chan[2] # X.chan[1] THEN Reset("Invalid input shape", s2, g)
             ELSE Reset("none",
                   [s2 EXCEPT
                      !.n_bins = n_bins, !.n_frames = n_frames, !.n_channels = X.chan[1],
                      !.spatial = Mat(n_bins, s2.n_basis, LAMBDA i, k: One),
                      !.basis = Rand(n_bins, s2.n_basis, g),
                      !.activation = Rand(s2.n_basis, n_frames, g2)],
                   RandAfter(s2.n_basis, n_frames, g2))

\* A variant that checks the shape after the tensors are created, which the
\* property of C8 must tell from MultichannelISNMF_reset.
MultichannelISNMF_reset_late_check(s, X, kw, g) ==
    IF s.target = "None" THEN Reset("Specify data!", s, g)
    ELSE LET s2 == ApplyKwargs(s, kw)
             n_bins == NRows(X.data)
             n_frames == NCols(X.data)
             hasT == s2.basis # <<>>
             hasV == s2.activation # <<>>
             g2 == IF hasT THEN g ELSE RandAfter(n_bins, s2.n_basis, g)
             g3 == IF hasV THEN g2 ELSE RandAfter(s2.n_basis, n_frames, g2)
         IN  Reset(IF X.chan[2] # X.chan[1] THEN "Invalid input shape" ELSE "none",
                   [s2 EXCEPT
                      !.n_bins = n_bins, !.n_frames = n_frames, !.n_channels = X.chan[1],
                      !.spatial = IF @ = <<>>
                                  THEN Mat(n_bins, s2.n_basis, LAMBDA i, k: One)
                                  ELSE @,
                      !.basis = IF hasT THEN @ ELSE Rand(n_bins, s2.n_basis, g),
                      !.activation = IF hasV THEN @ ELSE Rand(s2.n_basis, n_frames, g2)],
                   g3)

\* MultichannelNMFbase._reset, then MultichannelISNMF._reset: the shape
\* check, and each tensor created only if the attribute does not exist.
MultichannelISNMF_reset(s, X, kw, g) ==
    IF s.target = "None" THEN Reset("Specify data!", s, g)
    ELSE LET s2 == ApplyKwargs(s, kw)
             n_bins == NRows(X.data)
             n_frames == NCols(X.data)
             hasT == s2.basis # <<>>
             hasV == s2.activation # <<>>
             g2 == IF hasT THEN g ELSE RandAfter(n_bins, s2.n_basis, g)
             g3 == IF hasV THEN g2 ELSE RandAfter(s2.n_basis, n_frames, g2)
         IN  IF X.chan[2] # X.chan[1] THEN Reset("Invalid input shape", s2, g)
             ELSE Reset("none",
                   [s2 EXCEPT
                      !.n_bins = n_bins, !.n_frames = n_frames, !.n_channels = X.chan[1],
                      !.spatial = IF @ = <<>>
                                  THEN Mat(n_bins, s2.n_basis, LAMBDA i, k: One)
                                  ELSE @,
                      !.basis = IF hasT THEN @ ELSE Rand(n_bins, s2.n_basis, g),
                      !.activation = IF hasV THEN @ ELSE Rand(s2.n_basis, n_frames, g2)],
                   g3)

DoReset(s, X, kw, g) ==
    IF s.kind \in RealKinds THEN NMFbase_reset(s, X, kw, g)
    ELSE IF s.kind = ComplexKind THEN ComplexEUCNMF_reset(s, X, kw, g)
    ELSE MultichannelISNMF_reset(s, X, kw, g)

ErrKind(e) ==
    IF e = "Specify data!" THEN "PreconditionViolation"
    ELSE IF e = "Invalid input shape" THEN "InvalidShape"
    ELSE "InvalidConfiguration"

\* ------------------------------------------------------------ __call__
\* self.target = target; self._reset(**kwargs); then update's loop is
\* entered.  target is <<>> (None) or <<the array>>.
Call(target, iteration, kw) ==
    /\ pc = "idle"
    /\ calls < MaxCalls
    /\ \E X \in {IF target = <<>> THEN arr ELSE target[1]} :
       \E r \in {DoReset([self EXCEPT !.target = IF target = <<>> THEN "None" ELSE "array"],
                          X, kw, rng)} :
           /\ arr' = X
           /\ arr0' = X
           /\ self' = r.self
           /\ rng' = r.rng
           /\ IF r.err # "none"
              THEN /\ pc' = "idle"
                   /\ err' = Err(ErrKind(r.err), r.err, "reset", 0)
                   /\ run0' = [run0 EXCEPT !.same = FALSE]
              ELSE /\ pc' = "loop"
                   /\ err' = NoErr
                   /\ run0' = IF run0.set
                              THEN [run0 EXCEPT
                                      !.runs = @ + 1,
                                      !.same = @ /\ X = run0.target /\ kw = NoKw]
                              ELSE [set |-> TRUE, basis |-> r.self.basis,
                                    activation |-> r.self.activation,
                                    spatial |-> r.self.spatial, target |-> X,
                                    steps |-> 0, runs |-> 1, same |-> TRUE]
    /\ pre' = self
    /\ rng0' = rng
    /\ kwargs' = kw
    /\ idx' = 0
    /\ iters' = iteration
    /\ calls' = calls + 1
    /\ ret' = <<>>
    /\ UNCHANGED ctor

\* ------------------------------------------------------------- update
\* update_once of the engine's class: the outcome for the instance s whose
\* target refers to the array with entries X.
UpdateOnce(s, X) ==
    IF s.kind = "EUCNMF"
    THEN EUCNMF_update_once(s.algorithm, s.basis, s.activation, X, s.domain, s.eps)
    ELSE IF s.kind = "KLNMF"
    THEN KLNMF_update_once(s.algorithm, s.basis, s.activation, X, s.domain, s.eps)
    ELSE IF s.kind = "ISNMF"
    THEN ISNMF_update_once(s.algorithm, s.basis, s.activation, X, s.domain, s.eps)
    ELSE IF s.kind = "tNMF"
    THEN tNMF_update_once(s.algorithm, s.basis, s.activation, X, s.domain, s.eps, s.nu)
    ELSE IF s.kind = "CauchyNMF"
    THEN CauchyNMF_update_once(s.algorithm, s.basis, s.activation, X, s.domain, s.eps)
    ELSE IF s.kind = ComplexKind
    THEN ComplexEUCNMF_update_once(s.basis, s.activation, s.phase, s.Beta, X,
                                   s.regularizer, s.p, s.eps)
    ELSE MultichannelISNMF_update_once(s.spatial, s.basis, s.activation, X,
                                       s.eps, s.normalize)

\* sum(|sum_k T[i][k] V[k][j] W[i][k][j] - X[i][j]|**2): the criterion of
\* ComplexEUCNMF summed over the array, for a reconstruction whose components
\* are weighted by the tensor W.
SquaredError(T, V, W, X) ==
    SeqSum([e \in 1..(NRows(X) * NCols(X)) |->
        LET i == ((e - 1) \div NCols(X)) + 1
            j == ((e - 1) % NCols(X)) + 1
            d == FSub(SeqSum([k \in 1..NCols(T) |->
                     FMul(FMul(T[i][k], V[k][j]), W[i][k][j])]), X[i][j])
        IN  FMul(d, d)])

\* The loss ComplexEUCNMF.update appends: TVPhi multiplies basis and
\* activation by self.phase, the phase angle itself.
ComplexEUCNMF_loss(T, V, Phi, X) == SquaredError(T, V, Phi, X)

\* The entry update appends to loss after a step: the value for the complex
\* engine; for the other engines (whose criteria are not modelled) a token.
LossEntry(s, r) ==
    IF s.kind = ComplexKind
    THEN ComplexEUCNMF_loss(r.basis, r.activation, r.phase, r.target)
    ELSE "loss"

\* The instance after a step that raised nothing: the tensors update_once
\* assigned, and the loss update appended.
AfterStep(s, r) ==
    [s EXCEPT !.basis = r.basis, !.activation = r.activation,
              !.phase = IF s.kind = ComplexKind THEN r.phase ELSE @,
              !.Beta = IF s.kind = ComplexKind THEN r.Beta ELSE @,
              !.spatial = IF s.kind = MultiKind THEN r.spatial ELSE @,
              !.loss = Append(@, LossEntry(s, r))]

\* A variant of the loop's end that also stops once a loss has been logged (a
\* convergence check), which the property of C12 must tell from LoopExhausted.
LoopExhausted_or_converged(i, n, loss) == i = n \/ Len(loss) >= 1

\* for idx in range(iteration): the loop ends when idx has run through the
\* range; the loss trace is not looked at.
LoopExhausted(i, n, loss) == i = n

\* One iteration of update's loop: update_once, then the loss appended.
Step ==
    /\ pc = "loop"
    /\ ~LoopExhausted(idx, iters, self.loss)
    /\ \E r \in {UpdateOnce(self, arr.data)} :
           IF r.err # "none"
           THEN /\ pc' = "idle"
                /\ err' = Err("InvalidConfiguration", r.err, "loop", idx)
                /\ UNCHANGED <<self, arr, idx, run0>>
           ELSE /\ self' = AfterStep(self, r)
                /\ arr' = [arr EXCEPT !.data = r.target]
                /\ idx' = idx + 1
                /\ run0' = [run0 EXCEPT !.steps = @ + 1]
                /\ UNCHANGED <<pc, err>>
    /\ UNCHANGED <<rng, iters, calls, ret, ctor, pre, kwargs, arr0, rng0>>

\* The loop is over: __call__ returns copies of the tensors.
Return ==
    /\ pc = "loop"
    /\ LoopExhausted(idx, iters, self.loss)
    /\ pc' = "idle"
    /\ ret' = << [basis |-> self.basis, activation |-> self.activation,
                  phase |-> self.phase, spatial |-> self.spatial] >>
    /\ UNCHANGED <<self, arr, rng, idx, iters, calls, err, ctor, pre, kwargs,
                   arr0, rng0, run0>>

Next ==
    \/ \E kind \in RealKinds, n \in NBasisVals, d \in DomainVals, a \in Algorithms :
          Construct(kind, n, d, a, FALSE)
    \/ \E n \in NBasisVals : Construct(ComplexKind, n, 0, "none", FALSE)
    \/ \E n \in NBasisVals, norm \in BOOLEAN : Construct(MultiKind, n, 0, "none", norm)
    \/ \E it \in 0..MaxIter : Call(<<>>, it, NoKw)
    \/ \E X \in Targets(self.kind), it \in 0..MaxIter :
          \E kw \in Kwargs(self.kind, X, InjectedCols(self)) : Call(<<X>>, it, kw)
    \/ Step
    \/ Return

Spec == Init /\ [][Next]_vars

\* ============================================================ properties
\* update's loop for the multichannel engine, run straight through: the
\* tensors st = [spatial, basis, activation] after k iterations on target X.
RECURSIVE MultichannelISNMF_update(_, _, _, _, _)
MultichannelISNMF_update(st, X, k, eps, normalize) ==
    IF k = 0 THEN st
    ELSE LET r == MultichannelISNMF_update_once(st.spatial, st.basis, st.activation,
                                                X, eps, normalize)
         IN  MultichannelISNMF_update(
                 [spatial |-> r.spatial, basis |-> r.basis, activation |-> r.activation],
                 X, k - 1, eps, normalize)

\* C1 (as the specification states it): after a run call returns, the loss
\* trace has exactly as many entries as the iteration count of that call,
\* also when the call is not the first on the instance.
C1_LossTraceHasIterationsEntries ==
    (pc = "idle" /\ ret # <<>>) => Len(self.loss) = iters

\* C2: for the multichannel engine, runs on the same target that follow one
\* another on one instance (warm starts) leave the Basis, Activation and
\* Spatial that one straight run of as many iterations as the runs made
\* together leaves, from the tensors the first run started with.
C2_WarmStartEqualsStraightRun ==
    (self.kind = MultiKind /\ pc = "idle" /\ ret # <<>> /\ run0.set /\ run0.same) =>
        LET st == MultichannelISNMF_update(
                      [spatial |-> run0.spatial, basis |-> run0.basis,
                       activation |-> run0.activation],
                      run0.target.data, run0.steps, self.eps, self.normalize)
        IN  /\ self.basis = st.basis
            /\ self.activation = st.activation
            /\ self.spatial = st.spatial
            /\ ret[1].basis = st.basis
            /\ ret[1].activation = st.activation
            /\ ret[1].spatial = st.spatial

\* C2's case: a second run of m >= 1 iterations has returned after a first
\* run of n >= 1 iterations on the same target.
C2_Witness ==
    /\ self.kind = MultiKind /\ pc = "idle" /\ ret # <<>>
    /\ run0.set /\ run0.same /\ run0.runs = 2
    /\ iters >= 1 /\ run0.steps > iters

\* C3: when a run of a real or the complex engine enters its loop, Basis and
\* Activation are the matrices the generator drew during this call, bins x
\* n_basis and n_basis x frames of the current target: nothing the instance
\* held before the call, and no basis the call's keywords gave, is in them.
C3_RunStartsFromFreshTensors ==
    (self.kind \in RealKinds \cup {ComplexKind} /\ pc = "loop" /\ idx = 0) =>
        /\ Shape(self.basis) = <<NRows(arr.data), self.n_basis>>
        /\ Shape(self.activation) = <<self.n_basis, NCols(arr.data)>>
        /\ self.basis = Rand(NRows(arr.data), self.n_basis, rng0)
        /\ self.activation = Rand(self.n_basis, NCols(arr.data),
                                  RandAfter(NRows(arr.data), self.n_basis, rng0))

\* C3's case: a second run, on a target of another shape than the first, with
\* a basis given by keyword, is about to take its first step.
C3_Witness ==
    /\ self.kind \in RealKinds \cup {ComplexKind} /\ pc = "loop" /\ idx = 0
    /\ calls = 2 /\ pre.basis # <<>> /\ kwargs.basis # <<>>
    /\ Shape(pre.basis) # Shape(self.basis)

\* C4: a constructor called with a domain outside [1, 2] (EUCNMF, KLNMF,
\* ISNMF, tNMF), or with a domain other than 2 (CauchyNMF, whatever the
\* algorithm), fails: no instance exists and no run is ever made.
C4_InvalidDomainRejectedAtConstruction ==
    (\/ (ctor.kind \in {"EUCNMF", "KLNMF", "ISNMF", "tNMF"}
            /\ ~(1 <= ctor.domain /\ ctor.domain <= 2))
     \/ (ctor.kind = "CauchyNMF" /\ ctor.domain # 2)) =>
        /\ pc = "ctor_failed"
        /\ err.kind = "InvalidConfiguration" /\ err.site = "ctor"
        /\ self = Blank
        /\ calls = 0

\* C4's case: CauchyNMF constructed with domain 1 and algorithm 'me'.
C4_Witness ==
    /\ ctor.kind = "CauchyNMF" /\ ctor.domain = 1 /\ ctor.algorithm = "me"
    /\ pc = "ctor_failed"

\* C5 (as the specification states it): an engine constructed with an
\* algorithm name it does not implement, or ISNMF 'me' or tNMF 'mm' with a
\* domain other than 2, never returns a result from a run.
C5_UnsupportedNeverReturns ==
    (/\ ctor.kind \in RealKinds
     /\ \/ ctor.algorithm \notin Implemented(ctor.kind)
        \/ (ctor.kind = "ISNMF" /\ ctor.algorithm = "me" /\ ctor.domain # 2)
        \/ (ctor.kind = "tNMF" /\ ctor.algorithm = "mm" /\ ctor.domain # 2)) =>
        ret = <<>>

\* C6 (as the specification states it): an InvalidConfiguration error is
\* raised by the constructor or by a run before its loop is entered, never
\* by an iteration of the loop.
C6_ConfigurationErrorsBeforeLoop ==
    err.kind = "InvalidConfiguration" => err.site \in {"ctor", "reset"}

\* C7 (as the specification states it): after a run called without a target
\* has failed, every attribute of the instance is what it was before the
\* call.
C7_NoTargetFailsBeforeMutation ==
    err.exc = "Specify data!" => self = pre

C9_TargetNeverMutated ==
    arr = arr0

\* C9's case: a tNMF run has taken a step on a target that has an entry
\* below eps.
C9_Witness ==
    /\ self.kind = "tNMF" /\ pc = "loop" /\ idx >= 1
    /\ \E x \in Entries(arr.data) : x < self.eps

\* C10 (as the specification states it): the Basis and Activation of a real
\* engine are, after every update step, non-negative and not NaN in every
\* entry.
C10_RealTensorsNonNegative ==
    (self.kind \in RealKinds /\ pc = "loop" /\ idx >= 1) =>
        \A x \in Entries(self.basis) \cup Entries(self.activation) :
            x # NaN /\ x >= 0

\* C11 (as the specification states it): the Basis and Activation of the
\* complex engine have, after every update step, no negative entry.
C11_ComplexTensorsNonNegative ==
    (self.kind = ComplexKind /\ pc = "loop" /\ idx >= 1) =>
        \A x \in Entries(self.basis) \cup Entries(self.activation) :
            x = NaN \/ x >= 0

\* C12: a run takes one update step per iteration, each followed by one loss
\* append, never more steps than `iterations`, and returns after exactly
\* `iterations` of them whatever the loss trace holds (for iterations = 0,
\* no step and no loss).
C12_FixedIterationCount ==
    /\ pc = "loop" => (idx <= iters /\ Len(self.loss) = Len(pre.loss) + idx)
    /\ (pc = "idle" /\ ret # <<>>) =>
            (idx = iters /\ Len(self.loss) = Len(pre.loss) + iters)

\* C12's case: a run of two iterations has returned, on an instance whose loss
\* trace already held entries when the run was called.
C12_Witness ==
    /\ pc = "idle" /\ ret # <<>> /\ iters = 2 /\ idx = 2
    /\ Len(pre.loss) >= 1 /\ Len(self.loss) = Len(pre.loss) + 2

\* The "Update basis" half of the rule the real engine s dispatches to,
\* applied to basis T and activation V on target X.
RealBasisHalf(s, T, V, X) ==
    IF s.kind = "EUCNMF" THEN EUCNMF_mm_basis(T, V, X, s.domain, s.eps)
    ELSE IF s.kind = "KLNMF" THEN KLNMF_mm_basis(T, V, X, s.domain, s.eps)
    ELSE IF s.kind = "ISNMF"
    THEN (IF s.algorithm = "mm"
          THEN ISNMF_basis(T, V, X, s.domain, s.eps, s.domain, s.domain + 2)
          ELSE ISNMF_basis(T, V, X, s.domain, s.eps, 1, 1))
    ELSE IF s.kind = "tNMF" THEN tNMF_mm_basis(T, V, tNMF_Z(X, s.eps), s.nu, s.eps)
    ELSE IF s.algorithm = "naive-multipricative" THEN CauchyNMF_basis(T, V, X, s.eps, 1, 1)
    ELSE IF s.algorithm = "mm" THEN CauchyNMF_basis(T, V, X, s.eps, 1, 2)
    ELSE IF s.algorithm = "me" THEN CauchyNMF_me_basis(T, V, X, s.eps)
    ELSE CauchyNMF_mm_fast_basis(T, V, X, s.eps)

\* The "Update activations" half of the same rule.
RealActivationHalf(s, T, V, X) ==
    IF s.kind = "EUCNMF" THEN EUCNMF_mm_activation(T, V, X, s.domain, s.eps)
    ELSE IF s.kind = "KLNMF" THEN KLNMF_mm_activation(T, V, X, s.domain, s.eps)
    ELSE IF s.kind = "ISNMF"
    THEN (IF s.algorithm = "mm"
          THEN ISNMF_activation(T, V, X, s.domain, s.eps, s.domain, s.domain + 2)
          ELSE ISNMF_activation(T, V, X, s.domain, s.eps, 1, 1))
    ELSE IF s.kind = "tNMF" THEN tNMF_mm_activation(T, V, tNMF_Z(X, s.eps), s.nu, s.eps)
    ELSE IF s.algorithm = "naive-multipricative"
    THEN CauchyNMF_activation(T, V, X, s.eps, 1, 1)
    ELSE IF s.algorithm = "mm" THEN CauchyNMF_activation(T, V, X, s.eps, 1, 2)
    ELSE IF s.algorithm = "me" THEN CauchyNMF_me_activation(T, V, X, s.eps)
    ELSE CauchyNMF_mm_fast_activation(T, V, X, s.eps)

\* C13: every completed update step of a real engine leaves as Basis the
\* basis half applied to the tensors the step started with, and as Activation
\* the activation half applied to that new Basis (not to the Basis the step
\* started with) and the old Activation; both change in the one step.
C13_ActivationFromUpdatedBasis ==
    [][(self.kind \in RealKinds /\ pc = "loop" /\ idx' = idx + 1) =>
          /\ self'.basis = RealBasisHalf(self, self.basis, self.activation, arr.data)
          /\ self'.activation =
                 RealActivationHalf(self, self'.basis, self.activation, arr.data)]_vars

\* C13's case: the first step of a run has changed the Basis, and the
\* Activation it left is the one formed from the new Basis, which is not the
\* one the old Basis would have given.
C13_Witness ==
    /\ self.kind \in RealKinds /\ pc = "loop" /\ idx = 1
    /\ LET T0 == Rand(NRows(arr.data), self.n_basis, rng0)
           V0 == Rand(self.n_basis, NCols(arr.data),
                      RandAfter(NRows(arr.data), self.n_basis, rng0))
       IN  /\ self.basis # T0
           /\ self.activation = RealActivationHalf(self, self.basis, V0, arr.data)
           /\ self.activation # RealActivationHalf(self, T0, V0, arr.data)

\* C14: every completed multichannel step leaves as Basis what update_basis
\* makes of the tensors the step started with, as Activation what
\* update_activation makes of that new Basis with the old Activation and
\* Spatial, and as Spatial what update_spatial makes of the new Basis and the
\* new Activation with the old Spatial: three sub-updates in that order, each
\* writing its own tensor only.
C14_SubUpdatesInOrder ==
    [][(self.kind = MultiKind /\ pc = "loop" /\ idx' = idx + 1) =>
          /\ self'.basis =
                 MultichannelISNMF_update_basis(self.spatial, self.basis,
                     self.activation, arr.data, self.eps)
          /\ self'.activation =
                 MultichannelISNMF_update_activation(self.spatial, self'.basis,
                     self.activation, arr.data, self.eps)
          /\ self'.spatial =
                 MultichannelISNMF_update_spatial(self.spatial, self'.basis,
                     self'.activation, arr.data, self.eps, self.normalize)]_vars

\* C14's case: the first multichannel step on an instance has changed the
\* Basis and the Activation, and neither the Activation nor the Spatial it
\* left is what the tensors the step started with would have given.
C14_Witness ==
    /\ self.kind = MultiKind /\ pc = "loop" /\ idx = 1
    /\ run0.set /\ run0.steps = 1 /\ run0.runs = 1
    /\ self.basis # run0.basis
    /\ self.activation # run0.activation
    /\ self.activation #
           MultichannelISNMF_update_activation(run0.spatial, run0.basis,
               run0.activation, arr.data, self.eps)
    /\ self.spatial #
           MultichannelISNMF_update_spatial(run0.spatial, run0.basis,
               run0.activation, arr.data, self.eps, self.normalize)

\* ------------------------------------------------------------- divisors
\* The values an update divides by, at the moment it divides: for each rule,
\* the entries of every array that stands right of a "/" in its code, in the
\* basis half on (T, V) or in the activation half on (T, V) with T the
\* updated basis.
EUCNMF_mm_basis_divisors(T, V, X, d, eps) ==
    LET TV == EClamp(MatMul(T, V), eps)
    IN  Entries(EClamp(MatMul(EPow(TV, 4 - d, d), Transpose(V)), eps))

EUCNMF_mm_activation_divisors(T, V, X, d, eps) ==
    LET TV == EClamp(MatMul(T, V), eps)
    IN  Entries(EClamp(MatMul(Transpose(T), EPow(TV, 4 - d, d)), eps))

KLNMF_mm_basis_divisors(T, V, X, d, eps) ==
    LET TV == EClamp(MatMul(T, V), eps)
    IN  Entries(TV)
        \cup Entries(EClamp(MatMul(EPow(TV, 2 - d, d), Transpose(V)), eps))

KLNMF_mm_activation_divisors(T, V, X, d, eps) ==
    LET TV == EClamp(MatMul(T, V), eps)
    IN  Entries(TV)
        \cup Entries(EClamp(MatMul(Transpose(T), EPow(TV, 2 - d, d)), eps))

ISNMF_basis_divisors(T, V, X, d, eps) ==
    LET TV == EClamp(MatMul(T, V), eps)
    IN  Entries(EPow(TV, d + 2, d)) \cup Entries(TV)
        \cup Entries(EClamp(MatMul(EInv(TV), Transpose(V)), eps))

ISNMF_activation_divisors(T, V, X, d, eps) ==
    LET TV == EClamp(MatMul(T, V), eps)
    IN  Entries(EPow(TV, d + 2, d)) \cup Entries(TV)
        \cup Entries(EClamp(MatMul(Transpose(T), EInv(TV)), eps))

\* The divisors of harmonic: (2 + nu) * TV, (2 + nu) * Z and the sum that 1
\* is divided by.
tNMF_harmonic_divisors(TV, Z, nu) ==
    Entries(EScale(FAdd(Two, nu), TV)) \cup Entries(EScale(FAdd(Two, nu), Z))
    \cup Entries(EMap2(TV, Z, LAMBDA tv, z:
             FAdd(FDiv(Two, FMul(FAdd(Two, nu), tv)),
                  FDiv(nu, FMul(FAdd(Two, nu), z)))))

tNMF_mm_basis_divisors(T, V, Z, nu, eps) ==
    LET TV == EClamp(MatMul(T, V), eps)
    IN  tNMF_harmonic_divisors(TV, Z, nu) \cup Entries(EPow(TV, 2, 1))
        \cup Entries(TV)
        \cup Entries(EClamp(MatMul(EInv(TV), Transpose(V)), eps))

tNMF_mm_activation_divisors(T, V, Z, nu, eps) ==
    LET TV == EClamp(MatMul(T, V), eps)
    IN  tNMF_harmonic_divisors(TV, Z, nu) \cup Entries(EPow(TV, 2, 1))
        \cup Entries(TV)
        \cup Entries(EClamp(MatMul(Transpose(T), EInv(TV)), eps))

CauchyNMF_basis_divisors(T, V, X, eps) ==
    LET TV == EClamp(MatMul(T, V), eps)
        C  == EClamp(EAdd(EScale(Two, X), EPow(TV, 2, 1)), eps)
    IN  Entries(TV) \cup Entries(C)
        \cup Entries(EClamp(MatMul(EScale(Three, EDiv(TV, C)), Transpose(V)), eps))

CauchyNMF_activation_divisors(T, V, X, eps) ==
    LET TV == EClamp(MatMul(T, V), eps)
        C  == EClamp(EAdd(EScale(Two, X), EPow(TV, 2, 1)), eps)
    IN  Entries(TV) \cup Entries(C)
        \cup Entries(EClamp(MatMul(EScale(Three, Transpose(T)), EDiv(TV, C)), eps))

CauchyNMF_me_basis_divisors(T, V, X, eps) ==
    LET TV   == MatMul(T, V)
        TV2Z == EClamp(EAdd(EPow(TV, 2, 1), X), eps)
        A    == MatMul(EScale(ThreeQuarters, EDiv(TV, TV2Z)), Transpose(V))
    IN  Entries(TV2Z) \cup Entries(TV)
        \cup Entries(CauchyNMF_me_denominator(A, SumV_over_TV(V, TV), eps))

CauchyNMF_me_activation_divisors(T, V, X, eps) ==
    LET TV   == MatMul(T, V)
        TV2Z == EClamp(EAdd(EPow(TV, 2, 1), X), eps)
        A    == MatMul(EScale(ThreeQuarters, Transpose(T)), EDiv(TV, TV2Z))
    IN  Entries(TV2Z) \cup Entries(TV)
        \cup Entries(CauchyNMF_me_denominator(A, SumT_over_TV(T, TV), eps))

CauchyNMF_mm_fast_basis_divisors(T, V, X, eps) ==
    LET TV == MatMul(T, V)
        C  == EAdd(EScale(Two, X), EPow(TV, 2, 1))
    IN  Entries(EClamp(EMul(C, TV), eps)) \cup Entries(EClamp(C, eps))
        \cup Entries(EClamp(MatMul(EDiv(TV, EClamp(C, eps)), Transpose(V)), eps))

CauchyNMF_mm_fast_activation_divisors(T, V, X, eps) ==
    LET TV == MatMul(T, V)
        C  == EAdd(EScale(Two, X), EPow(TV, 2, 1))
    IN  Entries(EClamp(EMul(C, TV), eps)) \cup Entries(EClamp(C, eps))
        \cup Entries(EClamp(MatMul(Transpose(T), EDiv(TV, EClamp(C, eps))), eps))

\* The basis-half divisors of the rule the real engine s dispatches to.
RealBasisDivisors(s, T, V, X) ==
    IF s.kind = "EUCNMF" THEN EUCNMF_mm_basis_divisors(T, V, X, s.domain, s.eps)
    ELSE IF s.kind = "KLNMF" THEN KLNMF_mm_basis_divisors(T, V, X, s.domain, s.eps)
    ELSE IF s.kind = "ISNMF" THEN ISNMF_basis_divisors(T, V, X, s.domain, s.eps)
    ELSE IF s.kind = "tNMF"
    THEN tNMF_mm_basis_divisors(T, V, tNMF_Z(X, s.eps), s.nu, s.eps)
    ELSE IF s.algorithm \in {"naive-multipricative", "mm"}
    THEN CauchyNMF_basis_divisors(T, V, X, s.eps)
    ELSE IF s.algorithm = "me" THEN CauchyNMF_me_basis_divisors(T, V, X, s.eps)
    ELSE CauchyNMF_mm_fast_basis_divisors(T, V, X, s.eps)

\* The activation-half divisors of the same rule.
RealActivationDivisors(s, T, V, X) ==
    IF s.kind = "EUCNMF" THEN EUCNMF_mm_activation_divisors(T, V, X, s.domain, s.eps)
    ELSE IF s.kind = "KLNMF" THEN KLNMF_mm_activation_divisors(T, V, X, s.domain, s.eps)
    ELSE IF s.kind = "ISNMF" THEN ISNMF_activation_divisors(T, V, X, s.domain, s.eps)
    ELSE IF s.kind = "tNMF"
    THEN tNMF_mm_activation_divisors(T, V, tNMF_Z(X, s.eps), s.nu, s.eps)
    ELSE IF s.algorithm \in {"naive-multipricative", "mm"}
    THEN CauchyNMF_activation_divisors(T, V, X, s.eps)
    ELSE IF s.algorithm = "me" THEN CauchyNMF_me_activation_divisors(T, V, X, s.eps)
    ELSE CauchyNMF_mm_fast_activation_divisors(T, V, X, s.eps)

\* The entries of a bins x n_basis x frames tensor.
TEntries(Z) ==
    {Z[i][k][j] : i \in 1..Len(Z), k \in 1..Len(Z[1]), j \in 1..Len(Z[1][1])}

\* ComplexEUCNMF.update_once and update_beta divide by Beta, by the two
\* denominators, by the column sums T.sum(axis=0) of the basis just computed
\* (taken as they are) and, in update_beta, by the floored sum of T V.
ComplexEUCNMF_divisors(T, V, Phi, Beta0, X, regularizer, p, eps) ==
    LET b     == NRows(T)
        n     == NCols(T)
        f     == NCols(V)
        Ephi  == TMap(Phi, ExpI)
        Beta  == TMap(Beta0, LAMBDA x: Clamp(x, eps))
        Xc    == Ten(b, n, f, LAMBDA i, k, j: FMul(FMul(T[i][k], V[k][j]), Ephi[i][k][j]))
        ZX    == Mat(b, f, LAMBDA i, j:
                     FSub(X[i][j], SeqSum([k \in 1..n |-> Xc[i][k][j]])))
        Z_bar == Ten(b, n, f, LAMBDA i, k, j:
                     FAdd(Xc[i][k][j], FMul(Beta[i][k][j], ZX[i][j])))
        V_bar == EClamp(V, eps)
        Re    == Ten(b, n, f, LAMBDA i, k, j: FMul(Z_bar[i][k][j], Ephi[i][k][j]))
        VV    == EPow(V_bar, 2, 1)
        numT  == Mat(b, n, LAMBDA i, k: SeqSum([j \in 1..f |->
                     FMul(FDiv(V_bar[k][j], Beta[i][k][j]), Re[i][k][j])]))
        denT  == EClamp(Mat(b, n, LAMBDA i, k: SeqSum([j \in 1..f |->
                     FDiv(VV[k][j], Beta[i][k][j])])), eps)
        T1    == EDiv(numT, denT)
        TT    == EPow(T1, 2, 1)
        denV  == EClamp(Mat(n, f, LAMBDA k, j:
                     FAdd(SeqSum([i \in 1..b |-> FDiv(TT[i][k], Beta[i][k][j])]),
                          FMul(FMul(regularizer, p * One), FPow(V_bar[k][j], p - 2, 1)))), eps)
        r     == ComplexEUCNMF_update_once(T, V, Phi, Beta0, X, regularizer, p, eps)
    IN  TEntries(Beta) \cup Entries(denT) \cup Entries(denV)
        \cup {SeqSum([i \in 1..b |-> T1[i][k]]) : k \in 1..n}
        \cup Entries(EClamp(MatMul(r.basis, r.activation), eps))

\* What one sub-update of MultichannelISNMF inverts: X_hat + eps * I.
Multi_X_hat_eps(H, T, V, eps) ==
    Entries(EMap(MultichannelISNMF_reconstruct(H, T, V), LAMBDA x: FAdd(x, eps)))

\* The divisors of update_basis, update_activation and update_spatial, each
\* on the tensors current when it runs: the matrix inverted, the denominator
\* and, when normalize is set, the trace H is divided by.
MultichannelISNMF_divisors(H, T, V, X, eps, normalize) ==
    LET T2   == MultichannelISNMF_update_basis(H, T, V, X, eps)
        V2   == MultichannelISNMF_update_activation(H, T2, V, X, eps)
        H2   == MultichannelISNMF_update_spatial(H, T2, V2, X, eps, FALSE)
    IN  Multi_X_hat_eps(H, T, V, eps) \cup Multi_X_hat_eps(H, T2, V, eps)
        \cup Multi_X_hat_eps(H, T2, V2, eps)
        \cup Entries(Multi_basis_denominator(H, V, Multi_inv_X_hat(H, T, V, eps), eps))
        \cup Entries(Multi_activation_denominator(H, T2, Multi_inv_X_hat(H, T2, V, eps), eps))
        \cup (IF normalize THEN Entries(H2) ELSE {})

\* Every value the step of engine s on target X divides by.
StepDivisors(s, X) ==
    IF s.kind \in RealKinds
    THEN RealBasisDivisors(s, s.basis, s.activation, X)
         \cup RealActivationDivisors(s, RealBasisHalf(s, s.basis, s.activation, X),
                                     s.activation, X)
    ELSE IF s.kind = ComplexKind
    THEN ComplexEUCNMF_divisors(s.basis, s.activation, s.phase, s.Beta, X,
                                s.regularizer, s.p, s.eps)
    ELSE MultichannelISNMF_divisors(s.spatial, s.basis, s.activation, X,
                                    s.eps, s.normalize)

NonNegative(M) == \A x \in Entries(M) : x # NaN /\ x >= 0

\* C15: whenever a step is about to run on non-negative Basis and Activation
\* (and, for the real-valued engines, a non-negative target), every value that
\* step divides by is a number that is at least eps.
C15_EveryDivisorFloored ==
    (/\ pc = "loop"
     /\ ~LoopExhausted(idx, iters, self.loss)
     /\ NonNegative(self.basis) /\ NonNegative(self.activation)
     /\ (self.kind \in RealKinds => NonNegative(arr.data))
     /\ UpdateOnce(self, arr.data).err = "none")
    => \A x \in StepDivisors(self, arr.data) : x # NaN /\ x >= self.eps

\* C16: after every step of the complex engine, the loss entry just appended
\* is the summed squared error between the target and the reconstruction
\* update_once uses, sum over components of Basis x Activation x
\* exp(i Phase).
C16_LossOfReconstruction ==
    (self.kind = ComplexKind /\ pc = "loop" /\ idx >= 1)
    => self.loss[Len(self.loss)]
         = SquaredError(self.basis, self.activation, TMap(self.phase, ExpI), arr.data)

\* C17: in every state of a constructed real-valued engine, between and
\* during run calls, the domain and the algorithm it holds are ones its
\* constructor accepts: no step executes with a configuration the constructor
\* would have rejected.
C17_ConfigurationStaysValid ==
    (self.kind \in RealKinds /\ pc \in {"idle", "loop"})
    => InitCheck(self.kind, self.domain, self.algorithm) = "none"

\* C18: whenever _reset of the multichannel engine has succeeded (first call
\* or warm start, with or without keyword overrides), Basis is bins x n_basis,
\* Activation is n_basis x frames and Spatial has one covariance per bin and
\* basis, for the bins and frames of the current target and the current
\* n_basis.
C18_TensorShapesMatch ==
    (self.kind = MultiKind /\ pc = "loop")
    => /\ NRows(self.basis) = NRows(arr.data) /\ NCols(self.basis) = self.n_basis
       /\ NRows(self.activation) = self.n_basis
       /\ NCols(self.activation) = NCols(arr.data)
       /\ NRows(self.spatial) = NRows(arr.data) /\ NCols(self.spatial) = self.n_basis
====
